---- MODULE Spec2Model ----
(***************************************************************************)
(* Model of server/app.py: a FastAPI endpoint that renders a weekly        *)
(* classroom-visit report (Sunday..Tuesday) as a right-to-left Arabic PDF  *)
(* with ReportLab.                                                         *)
(*                                                                         *)
(* Text is a sequence of character codes:                                  *)
(*    1..9    Arabic letters in their base (logical) form                  *)
(*    11..19  the presentation forms the reshaper substitutes for them     *)
(*    20..29  the European digits 0..9                                     *)
(*    30      the solidus "/"                                              *)
(* The string literals of the source are abbreviated to short, pairwise    *)
(* distinct letter sequences.  Python's None is the one-element sequence   *)
(* <<-1>>, which no text equals.                                           *)
(***************************************************************************)
EXTENDS Integers, Sequences, FiniteSets, TLC

VARIABLES
    fs,         \* the font directory: file path -> "absent" | "valid" | "invalid"
    registry,   \* pdfmetrics' process-wide font table: name -> registered TTFont object
    clock,      \* datetime.now(), as a day number counted from Epoch
    pc,         \* per request: where the handler stands
    req,        \* per request: the submitted form fields
    fonts,      \* per request: (font_regular, font_bold) of build_pdf_report
    buf,        \* per request: the io.BytesIO output buffer
    story,      \* per request: the list of flowables
    dates,      \* per request: (sun_d, mon_d, tue_d)
    pages,      \* per request: the canvas pages doc.build has produced
    resp,       \* per request: what the HTTP caller receives
    call        \* the last direct call of a helper function and its outcome

vars == <<fs, registry, clock, pc, req, fonts, buf, story, dates, pages, resp, call>>

----------------------------------------------------------------------------
(* Bounds *)

MaxDay == 75
StartDay == 6
MaxTicks == 1
MaxPages == 3
MaxCalls == 3

----------------------------------------------------------------------------
(* Characters and text *)

None == << -1 >>

FormOffset == 10
Slash == 30

IsLetter(c) == c \in 1..9
IsForm(c) == c \in 11..19
IsDigit(c) == c \in 20..29
IsRTL(c) == IsLetter(c) \/ IsForm(c)

\* reshaper.reshape: every base letter is replaced by its presentation form;
\* anything else, presentation forms included, passes through.
reshape(s) ==
    [i \in 1..Len(s) |-> IF IsLetter(s[i]) THEN s[i] + FormOffset ELSE s[i]]

\* A character of a number: a digit, or a solidus between two digits (rule W4
\* of the bidirectional algorithm).
IsNum(s, i) ==
    \/ IsDigit(s[i])
    \/ /\ s[i] = Slash
       /\ i > 1
       /\ i < Len(s)
       /\ IsDigit(s[i - 1])
       /\ IsDigit(s[i + 1])

RunStart(s, i) ==
    CHOOSE a \in 1..i :
        /\ \A k \in a..i : IsNum(s, k)
        /\ (a = 1 \/ ~IsNum(s, a - 1))

RunEnd(s, i) ==
    CHOOSE b \in i..Len(s) :
        /\ \A k \in i..b : IsNum(s, k)
        /\ (b = Len(s) \/ ~IsNum(s, b + 1))

\* Where character i of a right-to-left paragraph is displayed: the paragraph
\* is mirrored, and every number keeps its own left-to-right order.
DisplayPos(s, i) ==
    IF IsNum(s, i)
    THEN (Len(s) + 1 - RunEnd(s, i)) + (i - RunStart(s, i))
    ELSE Len(s) + 1 - i

\* bidi.algorithm.get_display: a paragraph without a right-to-left letter has
\* base level 0 and is displayed as stored.
get_display(s) ==
    IF \A i \in 1..Len(s) : ~IsRTL(s[i])
    THEN s
    ELSE [j \in 1..Len(s) |-> s[CHOOSE i \in 1..Len(s) : DisplayPos(s, i) = j]]

rtl(text) ==
    IF text = None THEN <<>> ELSE get_display(reshape(text))

\* Python's `x or ""`.
OrEmpty(x) == IF x = None \/ x = <<>> THEN <<>> ELSE x

----------------------------------------------------------------------------
(* The calendar behind datetime, timedelta and strftime *)

\* Day number 0: Sunday, 24 December 2023.
Epoch == [y |-> 2023, m |-> 12, d |-> 24]

IsLeap(y) == (y % 4 = 0 /\ y % 100 # 0) \/ y % 400 = 0

DaysInMonth(y, m) ==
    IF m = 2 THEN (IF IsLeap(y) THEN 29 ELSE 28)
    ELSE IF m \in {4, 6, 9, 11} THEN 30 ELSE 31

YearLen(y) == IF IsLeap(y) THEN 366 ELSE 365

\* Days of year y before its month m.
DaysBeforeMonth(y, m) ==
    LET acc[k \in 1..12] == IF k = 1 THEN 0 ELSE acc[k - 1] + DaysInMonth(y, k - 1)
    IN  acc[m]

\* Days from 1 January of Epoch's year to 1 January of year y.
DaysBeforeYear(y) ==
    LET acc[k \in Epoch.y..(Epoch.y + 3)] ==
            IF k = Epoch.y THEN 0 ELSE acc[k - 1] + YearLen(k - 1)
    IN  acc[y]

\* The civil date of a day number (date.fromordinal).
DateOf ==
    [n \in 0..(MaxDay + StartDay + MaxTicks + 2) |->
        LET t == n + DaysBeforeMonth(Epoch.y, Epoch.m) + Epoch.d - 1
            y == CHOOSE k \in Epoch.y..(Epoch.y + 2) :
                    DaysBeforeYear(k) <= t /\ t < DaysBeforeYear(k + 1)
            doy == t - DaysBeforeYear(y)
            m == CHOOSE k \in 1..12 :
                    /\ DaysBeforeMonth(y, k) <= doy
                    /\ doy < DaysBeforeMonth(y, k) + DaysInMonth(y, k)
        IN  [y |-> y, m |-> m, d |-> doy - DaysBeforeMonth(y, m) + 1]]

\* date.weekday(): Monday = 0 .. Sunday = 6.
weekday(n) == (n + 6) % 7

Pow10(k) == IF k = 0 THEN 1 ELSE IF k = 1 THEN 10 ELSE IF k = 2 THEN 100 ELSE 1000

\* The zero-padded decimal digits of v, w characters wide.
Pad(v, w) == [i \in 1..w |-> 20 + ((v \div Pow10(w - i)) % 10)]

\* strftime("%Y/%m/%d")
fmt(n) ==
    LET dt == DateOf[n]
    IN  Pad(dt.y, 4) \o <<Slash>> \o Pad(dt.m, 2) \o <<Slash>> \o Pad(dt.d, 2)

\* strftime("%Y%m%d") of the download's file name
fmt_filename(n) ==
    LET dt == DateOf[n]
    IN  Pad(dt.y, 4) \o Pad(dt.m, 2) \o Pad(dt.d, 2)

\* Variant: the distance to Sunday taken with the operands the other way round.
current_week_sun_mon_tue_late(today) ==
    LET diff_to_sun == (6 - weekday(today)) % 7
        sun == today - diff_to_sun
    IN  IF sun < 0 THEN <<fmt(0), fmt(1), fmt(2)>>
        ELSE <<fmt(sun), fmt(sun + 1), fmt(sun + 2)>>

current_week_sun_mon_tue(today) ==
    LET diff_to_sun == (weekday(today) - 6) % 7
        sun == today - diff_to_sun
        mon == sun + 1
        tue == sun + 2
    IN  <<fmt(sun), fmt(mon), fmt(tue)>>

----------------------------------------------------------------------------
(* The string literals of the source *)

TITLE == <<1, 2>>            \* "taqrir al-jawlat al-idariyya ..."
ADMIN_NAME == <<1, 3>>       \* admin_name, fixed in build_pdf_report
HEAD_TERM == <<1, 4>>        \* "al-fasl al-dirasi"
HEAD_WEEK == <<1, 5>>        \* "al-usbu'"
HEAD_PERIOD == <<1, 6>>      \* "al-hissa"
HEAD_ADMIN == <<1, 7>>       \* "ism al-idariyya"
HEAD_DATE == <<1, 8>>        \* "al-tarikh"
HEAD_NOTE == <<1, 9>>        \* "mulahazat"
HEAD_FOLLOW == <<2, 1>>      \* "mutaba'at al-jawla"
HEAD_CLASS == <<2, 3>>       \* "al-fasl"
HEAD_DAY == <<2, 4>>         \* "al-yawm"
DAY_SUN == <<2, 5>>          \* "al-ahad"
DAY_MON == <<2, 6>>          \* "al-ithnayn"
DAY_TUE == <<2, 7>>          \* "al-thulatha'"
HEADER_LINES == <<<<3, 1>>, <<3, 2>>, <<3, 4>>, <<3, 5>>>>
SIGNATURE == <<3, 6>>        \* "mudirat al-madrasa / ..."

----------------------------------------------------------------------------
(* Fonts *)

FONT_REGULAR_PATH == "server/fonts/Tajawal-Medium.ttf"
FONT_BOLD_PATH == "server/fonts/Tajawal-Bold.ttf"
NoPath == "None"             \* bold_path = None

FontFiles == {FONT_REGULAR_PATH, FONT_BOLD_PATH}
FileStates == {"absent", "valid", "invalid"}
FontNames == {"Arabic-Regular", "Arabic-Bold"}

NoFont == [path |-> "", obj |-> 0]
EmptyRegistry == [n \in FontNames |-> NoFont]

\* os.path.exists
exists(path) == path \in DOMAIN fs /\ fs[path] # "absent"

\* TTFont(name, path) parses the file and raises when it is no TrueType font.
TTFontLoads(path) == path \in DOMAIN fs /\ fs[path] = "valid"

\* pdfmetrics.registerFont(TTFont(name, path)): the table entry is replaced
\* by the newly made font object.
registerFont(reg, name, path, obj) ==
    [reg EXCEPT ![name] = [path |-> path, obj |-> obj]]

\* Variant: no existence test before the regular font is registered.
ensure_fonts_unchecked(regular_path, bold_path, reg, obj) ==
    LET reg1 == registerFont(reg, "Arabic-Regular", regular_path, obj)
    IN  IF ~TTFontLoads(regular_path)
        THEN [raised |-> "TTFError", ret |-> <<"", "">>, registry |-> reg1]
        ELSE [raised |-> "none",
              ret |-> <<"Arabic-Regular", "Arabic-Regular">>,
              registry |-> reg1]

\* Variant: bold_name is not reset when the bold font is unusable.
ensure_fonts_nofallback(regular_path, bold_path, reg, obj) ==
    IF ~exists(regular_path)
    THEN [raised |-> "FileNotFoundError", ret |-> <<"", "">>, registry |-> reg]
    ELSE IF ~TTFontLoads(regular_path)
    THEN [raised |-> "TTFError", ret |-> <<"", "">>, registry |-> reg]
    ELSE LET reg1 == registerFont(reg, "Arabic-Regular", regular_path, obj)
         IN  IF bold_path \notin {NoPath, ""} /\ TTFontLoads(bold_path)
             THEN [raised |-> "none",
                   ret |-> <<"Arabic-Regular", "Arabic-Bold">>,
                   registry |-> registerFont(reg1, "Arabic-Bold", bold_path, obj)]
             ELSE [raised |-> "none",
                   ret |-> <<"Arabic-Regular", "Arabic-Bold">>,
                   registry |-> reg1]

\* ensure_fonts(regular_path, bold_path), called with the font table reg;
\* obj identifies the TTFont objects this call creates.
ensure_fonts(regular_path, bold_path, reg, obj) ==
    IF ~exists(regular_path)
    THEN [raised |-> "FileNotFoundError", ret |-> <<"", "">>, registry |-> reg]
    ELSE IF ~TTFontLoads(regular_path)
    THEN [raised |-> "TTFError", ret |-> <<"", "">>, registry |-> reg]
    ELSE LET regular_name == "Arabic-Regular"
             reg1 == registerFont(reg, regular_name, regular_path, obj)
         IN  IF bold_path \notin {NoPath, ""} /\ exists(bold_path)
             THEN IF TTFontLoads(bold_path)
                  THEN [raised |-> "none",
                        ret |-> <<regular_name, "Arabic-Bold">>,
                        registry |-> registerFont(reg1, "Arabic-Bold", bold_path, obj)]
                  ELSE [raised |-> "none",
                        ret |-> <<regular_name, regular_name>>,
                        registry |-> reg1]
             ELSE [raised |-> "none",
                   ret |-> <<regular_name, regular_name>>,
                   registry |-> reg1]

----------------------------------------------------------------------------
(* Flowables.  A Table holds its rows as given: cell [k][i] is drawn in     *)
(* column i, and the layout engine places column 1 leftmost and the last   *)
(* column rightmost.  Column widths are in millimetres.                    *)

Table(rows, colWidths, font_name) ==
    [kind |-> "Table", rows |-> rows, colWidths |-> colWidths,
     font |-> font_name, hAlign |-> "RIGHT"]

Paragraph(text, font_name) ==
    [kind |-> "Paragraph", text |-> text, font |-> font_name, alignment |-> "CENTER"]

Spacer(h) == [kind |-> "Spacer", height |-> h]

\* Variant: week and period exchanged in the value row.
_fields_row_swapped(font_name, admin_name, period, week, term) ==
    Table(<< <<rtl(HEAD_TERM), rtl(HEAD_WEEK), rtl(HEAD_PERIOD), rtl(HEAD_ADMIN)>>,
             <<rtl(OrEmpty(term)), rtl(OrEmpty(period)), rtl(OrEmpty(week)),
               rtl(admin_name)>> >>,
          <<38, 30, 28, 64>>, font_name)

_fields_row(font_name, admin_name, period, week, term) ==
    LET headers == <<rtl(HEAD_TERM), rtl(HEAD_WEEK), rtl(HEAD_PERIOD), rtl(HEAD_ADMIN)>>
        values == <<rtl(OrEmpty(term)), rtl(OrEmpty(week)), rtl(OrEmpty(period)),
                    rtl(admin_name)>>
        widths == <<38, 30, 28, 64>>
    IN  Table(<<headers, values>>, widths, font_name)

\* Variant: the heading cell before the value cell.
_date_row_heading_first(font_name, date_str) ==
    Table(<< <<rtl(HEAD_DATE), rtl(date_str)>> >>, <<20, 40>>, font_name)

_date_row(font_name, date_str) ==
    Table(<< <<rtl(date_str), rtl(HEAD_DATE)>> >>, <<40, 20>>, font_name)

\* Variant: the note is passed through rtl twice.
_visit_table_reshaped(font_name, day_label, klass, follow, note) ==
    Table(<< <<rtl(HEAD_NOTE), rtl(HEAD_FOLLOW), rtl(HEAD_CLASS), rtl(HEAD_DAY)>>,
             <<rtl(rtl(OrEmpty(note))), rtl(OrEmpty(follow)), rtl(OrEmpty(klass)),
               rtl(day_label)>> >>,
          <<60, 60, 25, 25>>, font_name)

_visit_table(font_name, day_label, klass, follow, note) ==
    LET head == <<rtl(HEAD_NOTE), rtl(HEAD_FOLLOW), rtl(HEAD_CLASS), rtl(HEAD_DAY)>>
        row == <<rtl(OrEmpty(note)), rtl(OrEmpty(follow)), rtl(OrEmpty(klass)),
                 rtl(day_label)>>
        widths == <<60, 60, 25, 25>>
    IN  Table(<<head, row>>, widths, font_name)

----------------------------------------------------------------------------
(* Page decoration.  A canvas page is the sequence of drawing operations   *)
(* made on it; y is the distance in points below the top line, or "footer" *)
(* for the line 8 mm above the bottom margin.                              *)

setFont(font_name, size) == [op |-> "setFont", font |-> font_name, size |-> size]

drawRightString(y, text) ==
    [op |-> "drawRightString", x |-> "page_w - margin", y |-> y, text |-> text]

draw_header_footer(canvas, font_regular) ==
    canvas
      \o <<setFont(font_regular, 11)>>
      \o [k \in 1..Len(HEADER_LINES) |->
            drawRightString(<<"top", 13 * (k - 1)>>, rtl(HEADER_LINES[k]))]
      \o <<setFont(font_regular, 12)>>
      \o <<drawRightString(<<"footer", 0>>, rtl(SIGNATURE))>>

\* The closure on_page of build_pdf_report.
on_page(canvas, font_regular) == draw_header_footer(canvas, font_regular)

onFirstPage(canvas, font_regular) == on_page(canvas, font_regular)

\* Variant: no handler for the pages after the first.
onLaterPages_none(canvas, font_regular) == canvas

onLaterPages(canvas, font_regular) == on_page(canvas, font_regular)

----------------------------------------------------------------------------
(* The requests *)

Requests == {1, 2}

FormEmpty ==
    [period |-> <<>>, week |-> <<>>, term |-> <<>>,
     sun_class |-> <<>>, sun_follow |-> <<>>, sun_note |-> <<>>,
     mon_class |-> <<>>, mon_follow |-> <<>>, mon_note |-> <<>>,
     tue_class |-> <<>>, tue_follow |-> <<>>, tue_note |-> <<>>]

FormFull ==
    [period |-> <<4, 5>>, week |-> <<21>>, term |-> <<21, 24, 24, 26>>,
     sun_class |-> <<5, 1, 23>>, sun_follow |-> <<5, 2>>, sun_note |-> <<5, 3, 4>>,
     mon_class |-> <<6, 1, 24>>, mon_follow |-> <<6, 2>>, mon_note |-> <<6, 3, 4>>,
     tue_class |-> <<7, 1, 25>>, tue_follow |-> <<7, 2>>, tue_note |-> <<7, 3, 4>>]

FormPartial ==
    [FormEmpty EXCEPT !.period = <<4, 5>>, !.mon_class = <<6, 1>>,
                      !.tue_note = <<7, 3, 30, 4>>]

Forms == {FormEmpty, FormFull, FormPartial}

NoResp == [status |-> 0]
ServerError == [status |-> 500]
NoCall == [n |-> 0, fn |-> "none", args |-> <<>>, raised |-> "none", ret |-> <<>>]

\* The positional arguments build_pdf_report passes on for day block k.
DayArgs(form, k) ==
    IF k = 1 THEN <<DAY_SUN, form.sun_class, form.sun_follow, form.sun_note>>
    ELSE IF k = 2 THEN <<DAY_MON, form.mon_class, form.mon_follow, form.mon_note>>
    ELSE <<DAY_TUE, form.tue_class, form.tue_follow, form.tue_note>>

\* How many day blocks the story holds.
DayBlocks(st) == (Len(st) - 4) \div 4

InitRequests ==
    /\ pc = [r \in Requests |-> "idle"]
    /\ req = [r \in Requests |-> FormEmpty]
    /\ fonts = [r \in Requests |-> <<"", "">>]
    /\ buf = [r \in Requests |-> "none"]
    /\ story = [r \in Requests |-> <<>>]
    /\ dates = [r \in Requests |-> <<>>]
    /\ pages = [r \in Requests |-> <<>>]
    /\ resp = [r \in Requests |-> NoResp]

Init ==
    /\ fs \in [FontFiles -> FileStates]
    /\ registry = EmptyRegistry
    /\ clock = StartDay
    /\ InitRequests
    /\ call = NoCall

\* POST /api/pdf arrives: generate_pdf is entered with the form fields.
Request(r, form) ==
    /\ pc[r] = "idle"
    /\ req' = [req EXCEPT ![r] = form]
    /\ pc' = [pc EXCEPT ![r] = "ensure_fonts"]
    /\ UNCHANGED <<fs, registry, clock, fonts, buf, story, dates, pages, resp, call>>

\* build_pdf_report, line 174.  An exception leaves build_pdf_report and
\* generate_pdf; the framework answers 500 without a body.
EnsureFontsStep(r) ==
    /\ pc[r] = "ensure_fonts"
    /\ LET res == ensure_fonts(FONT_REGULAR_PATH, FONT_BOLD_PATH, registry, r)
       IN  /\ registry' = res.registry
           /\ IF res.raised # "none"
              THEN /\ pc' = [pc EXCEPT ![r] = "error"]
                   /\ resp' = [resp EXCEPT ![r] = ServerError]
                   /\ UNCHANGED fonts
              ELSE /\ pc' = [pc EXCEPT ![r] = "head"]
                   /\ fonts' = [fonts EXCEPT ![r] = res.ret]
                   /\ UNCHANGED resp
    /\ UNCHANGED <<fs, clock, req, buf, story, dates, pages, call>>

\* build_pdf_report, lines 176-197: style, buffer, document, title, fields row.
StoryHead(r) ==
    /\ pc[r] = "head"
    /\ buf' = [buf EXCEPT ![r] = "open"]
    /\ story' = [story EXCEPT ![r] =
          <<Paragraph(rtl(TITLE), fonts[r][2]),
            Spacer(4),
            _fields_row(fonts[r][1], ADMIN_NAME, req[r].period, req[r].week,
                        req[r].term),
            Spacer(6)>>]
    /\ pc' = [pc EXCEPT ![r] = "dates"]
    /\ UNCHANGED <<fs, registry, clock, req, fonts, dates, pages, resp, call>>

\* build_pdf_report, line 200.
ReadDates(r) ==
    /\ pc[r] = "dates"
    /\ dates' = [dates EXCEPT ![r] = current_week_sun_mon_tue(clock)]
    /\ pc' = [pc EXCEPT ![r] = "day"]
    /\ UNCHANGED <<fs, registry, clock, req, fonts, buf, story, pages, resp, call>>

\* Variant: every day block reads the clock again.
DayBlock_rereads(r) ==
    /\ pc[r] = "day"
    /\ LET k == DayBlocks(story[r]) + 1
           a == DayArgs(req[r], k)
       IN  /\ story' = [story EXCEPT ![r] = @ \o
                 <<_date_row(fonts[r][1], current_week_sun_mon_tue(clock)[k]),
                   Spacer(4),
                   _visit_table(fonts[r][1], a[1], a[2], a[3], a[4]),
                   Spacer(IF k = 3 THEN 10 ELSE 8)>>]
           /\ pc' = [pc EXCEPT ![r] = IF k = 3 THEN "build" ELSE "day"]
    /\ UNCHANGED <<fs, registry, clock, req, fonts, buf, dates, pages, resp, call>>

\* build_pdf_report, lines 203-206, 209-212, 215-218: the next day block.
DayBlock(r) ==
    /\ pc[r] = "day"
    /\ LET k == DayBlocks(story[r]) + 1
           a == DayArgs(req[r], k)
       IN  /\ story' = [story EXCEPT ![r] = @ \o
                 <<_date_row(fonts[r][1], dates[r][k]),
                   Spacer(4),
                   _visit_table(fonts[r][1], a[1], a[2], a[3], a[4]),
                   Spacer(IF k = 3 THEN 10 ELSE 8)>>]
           /\ pc' = [pc EXCEPT ![r] = IF k = 3 THEN "build" ELSE "day"]
    /\ UNCHANGED <<fs, registry, clock, req, fonts, buf, dates, pages, resp, call>>

\* doc.build, line 223: the layout engine starts one more page and calls the
\* page's handler on its canvas.  How many pages the content needs is the
\* engine's decision.
BuildPage(r) ==
    /\ pc[r] = "build"
    /\ Len(pages[r]) < MaxPages
    /\ pages' = [pages EXCEPT ![r] = Append(@,
          IF Len(@) = 0 THEN onFirstPage(<<>>, fonts[r][1])
                        ELSE onLaterPages(<<>>, fonts[r][1]))]
    /\ UNCHANGED <<fs, registry, clock, pc, req, fonts, buf, story, dates, resp, call>>

\* Variant: a failed build answers with what the buffer holds so far.
BuildFail_partial(r) ==
    /\ pc[r] = "build"
    /\ pc' = [pc EXCEPT ![r] = "error"]
    /\ resp' = [resp EXCEPT ![r] =
          [status |-> 200, media_type |-> "application/pdf",
           content |-> [story |-> story[r], pages |-> pages[r]],
           filename |-> fmt_filename(clock)]]
    /\ UNCHANGED <<fs, registry, clock, req, fonts, buf, story, dates, pages, call>>

\* doc.build raises (a flowable that fits no page): the exception leaves
\* build_pdf_report and generate_pdf.
BuildFail(r) ==
    /\ pc[r] = "build"
    /\ pc' = [pc EXCEPT ![r] = "error"]
    /\ resp' = [resp EXCEPT ![r] = ServerError]
    /\ UNCHANGED <<fs, registry, clock, req, fonts, buf, story, dates, pages, call>>

\* doc.build returns; build_pdf_report, lines 224-226, and generate_pdf,
\* lines 253-256.
Return(r) ==
    /\ pc[r] = "build"
    /\ Len(pages[r]) >= 1
    /\ buf' = [buf EXCEPT ![r] = "closed"]
    /\ resp' = [resp EXCEPT ![r] =
          [status |-> 200, media_type |-> "application/pdf",
           content |-> [story |-> story[r], pages |-> pages[r]],
           filename |-> fmt_filename(clock)]]
    /\ pc' = [pc EXCEPT ![r] = "done"]
    /\ UNCHANGED <<fs, registry, clock, req, fonts, story, dates, pages, call>>

\* Midnight passes.
Tick(last) ==
    /\ clock < last
    /\ clock' = clock + 1
    /\ UNCHANGED <<fs, registry, pc, req, fonts, buf, story, dates, pages, resp, call>>

Next ==
    \/ \E r \in Requests, form \in Forms : Request(r, form)
    \/ \E r \in Requests : EnsureFontsStep(r)
    \/ \E r \in Requests : StoryHead(r)
    \/ \E r \in Requests : ReadDates(r)
    \/ \E r \in Requests : DayBlock(r)
    \/ \E r \in Requests : BuildPage(r)
    \/ \E r \in Requests : BuildFail(r)
    \/ \E r \in Requests : Return(r)
    \/ Tick(StartDay + MaxTicks)

Spec == Init /\ [][Next]_vars

----------------------------------------------------------------------------
(* Direct calls of the helper functions, with any arguments *)

RegularArgs == {FONT_REGULAR_PATH, FONT_BOLD_PATH, "server/fonts/nofile.ttf", ""}
BoldArgs == {NoPath, "", "server/fonts/nofile.ttf", FONT_REGULAR_PATH, FONT_BOLD_PATH}
Texts == {None, <<>>, <<4, 5>>, <<4, 21, 22>>}
DayLabels == {DAY_SUN, DAY_MON, DAY_TUE}

CallEnsureFonts(regular_path, bold_path) ==
    /\ call.n < MaxCalls
    /\ LET res == ensure_fonts(regular_path, bold_path, registry, call.n + 1)
       IN  /\ registry' = res.registry
           /\ call' = [n |-> call.n + 1, fn |-> "ensure_fonts",
                       args |-> <<regular_path, bold_path>>,
                       raised |-> res.raised, ret |-> res.ret]
    /\ UNCHANGED <<fs, clock, pc, req, fonts, buf, story, dates, pages, resp>>

CallCurrentWeek ==
    /\ call' = [n |-> 1, fn |-> "current_week_sun_mon_tue", args |-> <<clock>>,
                raised |-> "none", ret |-> current_week_sun_mon_tue(clock)]
    /\ UNCHANGED <<fs, registry, clock, pc, req, fonts, buf, story, dates, pages, resp>>

CallFieldsRow(admin_name, period, week, term) ==
    /\ call' = [n |-> 1, fn |-> "_fields_row",
                args |-> <<admin_name, period, week, term>>, raised |-> "none",
                ret |-> _fields_row("Arabic-Regular", admin_name, period, week, term)]
    /\ UNCHANGED <<fs, registry, clock, pc, req, fonts, buf, story, dates, pages, resp>>

CallDateRow(date_str) ==
    /\ call' = [n |-> 1, fn |-> "_date_row", args |-> <<date_str>>,
                raised |-> "none", ret |-> _date_row("Arabic-Regular", date_str)]
    /\ UNCHANGED <<fs, registry, clock, pc, req, fonts, buf, story, dates, pages, resp>>

CallVisitTable(day_label, klass, follow, note) ==
    /\ call' = [n |-> 1, fn |-> "_visit_table",
                args |-> <<day_label, klass, follow, note>>, raised |-> "none",
                ret |-> _visit_table("Arabic-Regular", day_label, klass, follow, note)]
    /\ UNCHANGED <<fs, registry, clock, pc, req, fonts, buf, story, dates, pages, resp>>

InitFonts ==
    /\ fs \in [FontFiles -> FileStates]
    /\ registry = EmptyRegistry
    /\ clock = StartDay
    /\ InitRequests
    /\ call = NoCall

NextFonts ==
    \E regular_path \in RegularArgs, bold_path \in BoldArgs :
        CallEnsureFonts(regular_path, bold_path)

SpecFonts == InitFonts /\ [][NextFonts]_vars

InitDates ==
    /\ fs = [f \in FontFiles |-> "valid"]
    /\ registry = EmptyRegistry
    /\ clock \in 0..MaxDay
    /\ InitRequests
    /\ call = NoCall

NextDates == CallCurrentWeek \/ Tick(MaxDay)

SpecDates == InitDates /\ [][NextDates]_vars

InitTables ==
    /\ fs = [f \in FontFiles |-> "valid"]
    /\ registry = EmptyRegistry
    /\ clock = StartDay
    /\ InitRequests
    /\ call = NoCall

NextTables ==
    \/ \E admin_name \in {ADMIN_NAME, None}, period \in Texts, week \in Texts,
          term \in Texts : CallFieldsRow(admin_name, period, week, term)
    \/ \E n \in 0..MaxDay : CallDateRow(fmt(n))
    \/ \E day_label \in DayLabels, klass \in Texts, follow \in Texts,
          note \in Texts : CallVisitTable(day_label, klass, follow, note)

SpecTables == InitTables /\ [][NextTables]_vars

----------------------------------------------------------------------------
(* Properties of ensure_fonts, under SpecFonts *)

\* C1: a call of ensure_fonts whose regular_path does not exist raises
\* FileNotFoundError whatever bold_path is, and leaves the font table as it was.
C1_MissingRegularIsFatal ==
    [][(call' # call /\ call'.fn = "ensure_fonts" /\ ~exists(call'.args[1]))
         => (call'.raised = "FileNotFoundError" /\ registry' = registry)]_vars

\* A failing call with an existing bold file, made after an earlier call has
\* registered fonts.
C1_Witness ==
    /\ call.fn = "ensure_fonts"
    /\ call.n >= 2
    /\ ~exists(call.args[1])
    /\ exists(call.args[2])
    /\ call.raised = "FileNotFoundError"
    /\ registry # EmptyRegistry

\* The bold file is there and TTFont accepts it.
BoldUsable(bold_path) ==
    bold_path \notin {NoPath, ""} /\ exists(bold_path) /\ TTFontLoads(bold_path)

BoldFallsBack ==
    /\ call.raised = "none"
    /\ (~BoldUsable(call.args[2]) => call.ret[2] = call.ret[1])
    /\ (call.ret[2] # call.ret[1] => BoldUsable(call.args[2]))

\* C2 as stated: with an existing regular_path the call returns without error
\* in every bold-font case, and the bold identifier is the regular one unless
\* the bold file exists and registered.
C2_ExistingRegularNeverFails ==
    (call.fn = "ensure_fonts" /\ exists(call.args[1])) => BoldFallsBack

\* C2, amended: the same for an existing regular_path whose own registration
\* succeeds.
C2_RegisteredRegularNeverFails ==
    (call.fn = "ensure_fonts" /\ exists(call.args[1]) /\ TTFontLoads(call.args[1]))
        => BoldFallsBack

\* The regular font registers and the bold file exists but does not load.
C2_Witness ==
    /\ call.fn = "ensure_fonts"
    /\ TTFontLoads(call.args[1])
    /\ call.args[2] \notin {NoPath, ""}
    /\ exists(call.args[2])
    /\ ~TTFontLoads(call.args[2])
    /\ call.raised = "none"
    /\ call.ret = <<"Arabic-Regular", "Arabic-Regular">>

----------------------------------------------------------------------------
(* Properties of current_week_sun_mon_tue, under SpecDates *)

\* C3: whatever day the clock shows, the three dates returned are those of a
\* Sunday s on or before today and at most 6 days back, of s + 1 and of s + 2.
C3_MostRecentSunday ==
    call.fn = "current_week_sun_mon_tue" =>
        \E s \in 0..call.args[1] :
            /\ s % 7 = 0
            /\ call.args[1] - s <= 6
            /\ call.ret = <<fmt(s), fmt(s + 1), fmt(s + 2)>>

\* Called on a Saturday whose Sunday lies in the month before.
C3_Witness ==
    /\ call.fn = "current_week_sun_mon_tue"
    /\ call.args[1] % 7 = 6
    /\ DateOf[call.args[1]].m # DateOf[call.args[1] - 6].m
    /\ call.ret[1] = fmt(call.args[1] - 6)

----------------------------------------------------------------------------
(* Properties of the table builders, under SpecTables *)

TableCalls == {"_fields_row", "_date_row", "_visit_table"}

\* The heading read first, which is displayed rightmost.
FirstReadHeading(fn) ==
    IF fn = "_fields_row" THEN HEAD_ADMIN
    ELSE IF fn = "_date_row" THEN HEAD_DATE
    ELSE HEAD_DAY

\* C8 as stated: in every table built, the heading displayed rightmost is in
\* the first column of the column array.
C8_FirstReadHeadingIsFirstColumn ==
    call.fn \in TableCalls =>
        call.ret.rows[1][1] = rtl(FirstReadHeading(call.fn))

\* C8, amended: in every table built, the heading displayed rightmost is in
\* the last column of the column array, the one the engine draws rightmost.
C8_FirstReadHeadingIsLastColumn ==
    call.fn \in TableCalls =>
        LET head == call.ret.rows[1]
        IN  /\ Len(head) = Len(call.ret.colWidths)
            /\ head[Len(head)] = rtl(FirstReadHeading(call.fn))
            /\ \A i \in 1..(Len(head) - 1) : head[i] # rtl(FirstReadHeading(call.fn))

C8_Witness ==
    /\ call.fn = "_date_row"
    /\ call.ret.rows[1][2] = rtl(HEAD_DATE)
    /\ call.ret.rows[1][1] = call.args[1]

\* The input that belongs under each heading: <<heading, position in args>>.
Belongs(fn) ==
    IF fn = "_fields_row"
    THEN {<<HEAD_ADMIN, 1>>, <<HEAD_PERIOD, 2>>, <<HEAD_WEEK, 3>>, <<HEAD_TERM, 4>>}
    ELSE {<<HEAD_DAY, 1>>, <<HEAD_CLASS, 2>>, <<HEAD_FOLLOW, 3>>, <<HEAD_NOTE, 4>>}

\* C9: in _fields_row and _visit_table both rows have as many cells as there
\* are column widths (4), every heading occurs in exactly one column, the
\* value below it is the shaped input that belongs to it, and an empty or
\* None input gives an empty cell there.
C9_ValuesUnderOwnHeadings ==
    call.fn \in {"_fields_row", "_visit_table"} =>
        LET t == call.ret
        IN  /\ Len(t.rows) = 2
            /\ Len(t.colWidths) = 4
            /\ Len(t.rows[1]) = Len(t.colWidths)
            /\ Len(t.rows[2]) = Len(t.colWidths)
            /\ \A hb \in Belongs(call.fn) :
                 /\ Cardinality({i \in 1..4 : t.rows[1][i] = rtl(hb[1])}) = 1
                 /\ \A i \in 1..4 :
                      t.rows[1][i] = rtl(hb[1]) =>
                        /\ t.rows[2][i] = rtl(OrEmpty(call.args[hb[2]]))
                        /\ (call.args[hb[2]] \in {None, <<>>} => t.rows[2][i] = <<>>)

\* _fields_row with period None, week empty and a term.
C9_Witness ==
    /\ call.fn = "_fields_row"
    /\ call.args[2] = None
    /\ call.args[3] = <<>>
    /\ call.args[4] = <<4, 21, 22>>
    /\ call.ret.rows[2] = << <<21, 22, 14>>, <<>>, <<>>, rtl(call.args[1]) >>

----------------------------------------------------------------------------
(* Properties of a render, under Spec *)

\* The document a finished render hands back: the whole story, laid out on
\* at least one page.
FullDocument(r) ==
    /\ resp[r].content = [story |-> story[r], pages |-> pages[r]]
    /\ DayBlocks(story[r]) = 3
    /\ Len(pages[r]) >= 1

\* C4: a request is answered either with the bytes of the fully built
\* document or with an error carrying no document at all; and when the
\* regular font file is missing the render stops at font registration, with
\* no buffer, no flowable and no page made.
C4_BytesOrError ==
    \A r \in Requests :
        /\ resp[r].status \in {0, 200, 500}
        /\ (resp[r].status = 0) = (pc[r] \notin {"done", "error"})
        /\ (resp[r].status = 200) = (pc[r] = "done")
        /\ (resp[r].status = 500) = (pc[r] = "error")
        /\ resp[r].status = 200 => (FullDocument(r) /\ buf[r] = "closed")
        /\ resp[r].status # 200 => "content" \notin DOMAIN resp[r]
        /\ ~exists(FONT_REGULAR_PATH) =>
             /\ pc[r] \in {"idle", "ensure_fonts", "error"}
             /\ buf[r] = "none"
             /\ story[r] = <<>>
             /\ pages[r] = <<>>

\* One request has been answered with its document while the other failed in
\* doc.build after a page had been laid out.
C4_Witness ==
    \E r, q \in Requests :
        /\ pc[r] = "done"
        /\ resp[r].status = 200
        /\ pc[q] = "error"
        /\ Len(pages[q]) >= 1
        /\ resp[q] = ServerError

\* What belongs to request r alone.
Local(r) == <<req[r], fonts[r], buf[r], story[r], dates[r], pages[r], resp[r]>>

\* C5: once the font table is initialised no step of any render writes it,
\* and a step writes the request-local state of one request only.
C5_SharedStateReadOnly ==
    [][/\ registry # EmptyRegistry => registry' = registry
       /\ \A r, q \in Requests :
            r # q => (Local(r)' = Local(r) \/ Local(q)' = Local(q))]_vars

\* One call of the page handler: the four header lines and the signature,
\* right-aligned, and nothing else.
Decorated(page, font_regular) ==
    /\ Len(page) = Len(HEADER_LINES) + 3
    /\ page[1] = setFont(font_regular, 11)
    /\ \A k \in 1..Len(HEADER_LINES) :
         page[1 + k] = drawRightString(<<"top", 13 * (k - 1)>>, rtl(HEADER_LINES[k]))
    /\ page[Len(HEADER_LINES) + 2] = setFont(font_regular, 12)
    /\ page[Len(HEADER_LINES) + 3] = drawRightString(<<"footer", 0>>, rtl(SIGNATURE))

\* C6: every page doc.build produces, the first and the later ones alike,
\* carries the drawing of exactly one call of the page handler, and a
\* finished document has at least one page.
C6_EveryPageDecorated ==
    \A r \in Requests :
        /\ \A p \in 1..Len(pages[r]) : Decorated(pages[r][p], fonts[r][1])
        /\ pc[r] = "done" =>
             /\ Len(resp[r].content.pages) >= 1
             /\ \A p \in 1..Len(resp[r].content.pages) :
                  Decorated(resp[r].content.pages[p], fonts[r][1])

C6_Witness ==
    \E r \in Requests :
        /\ pc[r] = "done"
        /\ Len(resp[r].content.pages) >= 2

\* The raw strings of day block k in the order _visit_table's row holds them.
DayRaw(form, k) ==
    LET a == DayArgs(form, k) IN <<a[4], a[3], a[2], a[1]>>

\* The texts of a table, row by row.
Cells(t) ==
    IF Len(t.rows) = 1 THEN t.rows[1] ELSE t.rows[1] \o t.rows[2]

\* The strings the source and the forms hold, each with its one-pass shape:
\* reshaped, then put in display order.
RawStrings ==
    {TITLE, ADMIN_NAME, HEAD_TERM, HEAD_WEEK, HEAD_PERIOD, HEAD_ADMIN, HEAD_DATE,
     HEAD_NOTE, HEAD_FOLLOW, HEAD_CLASS, HEAD_DAY, DAY_SUN, DAY_MON, DAY_TUE,
     SIGNATURE}
      \cup {HEADER_LINES[k] : k \in 1..Len(HEADER_LINES)}
      \cup UNION {{f[x] : x \in DOMAIN f} : f \in Forms}

OnePass == [raw \in RawStrings |-> get_display(reshape(raw))]

\* cell is raw after one pass of rtl, so that no base letter is left in it.
ShapedOnce(cell, raw) ==
    /\ cell = IF raw \in RawStrings THEN OnePass[raw] ELSE get_display(reshape(raw))
    /\ \A i \in 1..Len(cell) : ~IsLetter(cell[i])

ShapedOnceAll(cells, raws) ==
    /\ Len(cells) = Len(raws)
    /\ \A i \in 1..Len(cells) : ShapedOnce(cells[i], raws[i])

\* C7: the title, every heading and value cell of every table, every page
\* header line and the signature are the output of exactly one pass of rtl
\* over the raw string.
C7_ShapedExactlyOnce ==
    \A r \in Requests :
        /\ Len(story[r]) >= 4 =>
             /\ ShapedOnce(story[r][1].text, TITLE)
             /\ ShapedOnceAll(Cells(story[r][3]),
                    <<HEAD_TERM, HEAD_WEEK, HEAD_PERIOD, HEAD_ADMIN,
                      req[r].term, req[r].week, req[r].period, ADMIN_NAME>>)
        /\ \A k \in 1..DayBlocks(story[r]) :
             /\ ShapedOnceAll(Cells(story[r][4 * k + 1]),
                    <<dates[r][k], HEAD_DATE>>)
             /\ ShapedOnceAll(Cells(story[r][4 * k + 3]),
                    <<HEAD_NOTE, HEAD_FOLLOW, HEAD_CLASS, HEAD_DAY>>
                      \o DayRaw(req[r], k))
        /\ \A p \in 1..Len(pages[r]) :
             LET drawn == SelectSeq(pages[r][p], LAMBDA o : o.op = "drawRightString")
             IN  ShapedOnceAll([i \in 1..Len(drawn) |-> drawn[i].text],
                               HEADER_LINES \o <<SIGNATURE>>)

\* A finished render of the fully filled form, whose notes read differently
\* after a second pass of rtl.
C7_Witness ==
    \E r \in Requests :
        /\ pc[r] = "done"
        /\ req[r] = FormFull
        /\ rtl(rtl(req[r].sun_note)) # rtl(req[r].sun_note)
        /\ story[r][7].rows[2][1] = <<14, 13, 15>>

\* C10: after the title and the fields row the story holds the day blocks in
\* the order Sunday, Monday, Tuesday, three of them once the story is built;
\* each is a date row, a spacer, that day's visit table, a spacer; the date
\* rows carry the dates of one Sunday s on or before the clock's day, s + 1
\* and s + 2; and each visit table carries its own day's label, class, follow
\* and note.
C10_ThreeDayBlocks ==
    \A r \in Requests :
        LET st == story[r]
            labels == <<DAY_SUN, DAY_MON, DAY_TUE>>
            inputs == << <<req[r].sun_note, req[r].sun_follow, req[r].sun_class>>,
                         <<req[r].mon_note, req[r].mon_follow, req[r].mon_class>>,
                         <<req[r].tue_note, req[r].tue_follow, req[r].tue_class>> >>
        IN  /\ Len(st) \in {0, 4, 8, 12, 16}
            /\ pc[r] \in {"build", "done"} => Len(st) = 16
            /\ pc[r] = "done" => resp[r].content.story = st
            /\ Len(st) >= 4 =>
                 /\ st[1].kind = "Paragraph"
                 /\ st[2].kind = "Spacer"
                 /\ st[3].kind = "Table" /\ st[3].rows[1][4] = rtl(HEAD_ADMIN)
                 /\ st[4].kind = "Spacer"
            /\ \A k \in 1..DayBlocks(st) :
                 /\ st[4 * k + 1].kind = "Table"
                 /\ st[4 * k + 1].rows[1][2] = rtl(HEAD_DATE)
                 /\ st[4 * k + 2].kind = "Spacer"
                 /\ st[4 * k + 3].kind = "Table"
                 /\ st[4 * k + 3].rows[1][4] = rtl(HEAD_DAY)
                 /\ st[4 * k + 3].rows[2] =
                      <<rtl(inputs[k][1]), rtl(inputs[k][2]), rtl(inputs[k][3]),
                        rtl(labels[k])>>
                 /\ st[4 * k + 4].kind = "Spacer"
            /\ DayBlocks(st) >= 1 =>
                 \E s \in 0..clock :
                    /\ s % 7 = 0
                    /\ \A k \in 1..DayBlocks(st) :
                         st[4 * k + 1].rows[1][1] = fmt(s + k - 1)

\* A finished render of the fully filled form during which the clock moved
\* on into the next week.
C10_Witness ==
    \E r \in Requests :
        /\ pc[r] = "done"
        /\ req[r] = FormFull
        /\ dates[r] # current_week_sun_mon_tue(clock)
        /\ story[r][13].rows[1][1] = fmt(2)

====
